---- MODULE Spec2Model ----
(***************************************************************************)
(* MeshX code generator (app/scripts/code_gen.py).                         *)
(*                                                                         *)
(* One run of the script: the profile document is loaded, CodeGen is       *)
(* constructed for the target name, the product's elements are expanded    *)
(* through the element catalog (recursively, mutating the catalog's macro  *)
(* values), the package manifest is dumped, the product-level and the      *)
(* per-element defines are appended to the text of the macro file, and the *)
(* macro file is written.                                                  *)
(*                                                                         *)
(* Python values are modelled with their type: a macro value is            *)
(* PyBool(b) or PyInt(n), an optional value (None or x) is <<>> or <<x>>, a    *)
(* product name is a sequence of characters (it is sliced), a dict is a    *)
(* function on its keys.                                                   *)
(***************************************************************************)
EXTENDS Integers, Sequences, FiniteSets, TLC

VARIABLES
    target,        \* sys.argv[1], CodeGen.target
    prod_profile,  \* the loaded document: [cid, products, elements]
    pc,            \* position of the script (the statement to run next)
    product,       \* CodeGen.product: <<>> (None) or <<product>>
    pid,           \* CodeGen.pid: <<>> (None) or <<pid>>
    deps,          \* CodeGen.deps, the dependency map
    max_el,        \* CodeGen.max_el
    file_insert,   \* CodeGen.file_insert: the lines after the fixed preamble
    genfile_h,     \* the macro file: [exists, text] (text: <<>> or <<lines>>)
    yml,           \* the manifest file: <<>> (not written) or <<document>>
    el_i,          \* resolve_el_deps: index of the next product element
    stack,         \* call stack of __resolve_dep_create_yml_dict
    visits,        \* history: the visits made so far, in order
    loaded,        \* history: the document as json.load returned it
    installed,     \* meshx.py: the tools found on this machine
    argv,          \* meshx.py: the command line [flags, N, P, H]
    args,          \* meshx.py: the parsed arguments
    available_products, \* meshx.py: the product names of the profile file
    build_dirs,    \* meshx.py: the products whose build directory exists
    sdkconfig,     \* meshx.py: whether the file sdkconfig exists
    main_pc,       \* meshx.py: position of the script
    idx,           \* meshx.py: position of the for loop that is running
    log,           \* history: child processes, file operations, stages entered
    fs0            \* history: build_dirs and sdkconfig before the run

vars == <<target, prod_profile, pc, product, pid, deps, max_el, file_insert,
          genfile_h, yml, el_i, stack, visits, loaded>>

dvars == <<installed, argv, args, available_products, build_dirs, sdkconfig,
           main_pc, idx, log, fs0>>

allvars == <<vars, dvars>>

-----------------------------------------------------------------------------
(* Bounds of the model *)

\* product element values are drawn from 0..MaxVal
MaxVal == 2
\* depth of recursion at which the interpreter gives up (RecursionError)
RecursionLimit == 5
\* number of products of a profile in the product-resolution family
MaxProducts == 2

-----------------------------------------------------------------------------
(* Python values *)

PyBool(b) == [type |-> "bool", b |-> b]
PyInt(n) == [type |-> "int", n |-> n]

\* isinstance(v, bool)
IsBool(v) == v.type = "bool"

\* int(v): True is 1, False is 0, an int is itself
IntOf(v) == IF v.type = "bool" THEN (IF v.b THEN 1 ELSE 0) ELSE v.n

\* "{}".format(x) of an int and of a quoted string
FmtInt(n) == [fmt |-> "int", n |-> n]
FmtStr(s) == [fmt |-> "str", s |-> s]

\* define_fmt.format(name, value): one "#define name value" line
Define(name, text) == [def |-> name, val |-> text]

\* s[:16:]
NameLimit == 16
Slice16(s) == IF Len(s) <= NameLimit THEN s ELSE SubSeq(s, 1, NameLimit)

\* dict with key k set to v
DictPut(d, k, v) == [n \in (DOMAIN d) \cup {k} |-> IF n = k THEN v ELSE d[n]]
EmptyDict == [n \in {} |-> [path |-> <<>>]]

Range(s) == {s[i] : i \in DOMAIN s}

-----------------------------------------------------------------------------
(* The profile documents of the model *)

\* product names; the long one exceeds the 16 characters the name is cut to
NameA == <<"A">>
NameB == <<"B">>
NameLong == <<"A","B","C","D","E","F","G","H","I","J","K","L","M","N","O","P","Q","R">>
ProductNames == {NameA, NameB, NameLong}

ElemNames == {"btn", "led", "pwm"}

\* an element reference of a product: {name, value}
Refs == [name : ElemNames, value : 0..MaxVal]
RefLists == {<<>>} \cup {<<r>> : r \in Refs} \cup {<<r1, r2>> : r1 \in Refs, r2 \in Refs}

\* a catalog entry; the path and the macro name are fixed by name and position
Entry(i, name, value, dl) ==
    [name |-> name, path |-> <<"p", name, i>>,
     macro |-> [def |-> <<"CONFIG", name, i>>, value |-> value], deps |-> dl]

\* macro values as loaded: a flag, or a count (9 is no value a visit passes)
Flags == {PyBool(FALSE), PyBool(TRUE)}
LoadedValues == Flags \cup {PyInt(0), PyInt(9)}
DepLists == {<<>>, <<"btn">>, <<"led">>, <<"pwm">>, <<"led", "pwm">>}

CatalogsOf(names, values, deplists) ==
    {[i \in 1..Len(names) |-> Entry(i, names[i], v[i], d[i])] :
        v \in [1..Len(names) -> values], d \in [1..Len(names) -> deplists]}

\* one entry with every loaded value; two entries (the same name twice
\* included) with a flag or a count each; three entries, btn the root, with
\* a clear flag or a count each
Catalogs ==
    {<<>>}
    \cup CatalogsOf(<<"btn">>, LoadedValues, DepLists)
    \cup CatalogsOf(<<"btn", "led">>, Flags \cup {PyInt(9)}, DepLists)
    \cup CatalogsOf(<<"btn", "btn">>, Flags \cup {PyInt(9)}, DepLists)
    \cup CatalogsOf(<<"btn", "led", "pwm">>, {PyBool(FALSE), PyInt(9)},
                    DepLists \ {<<"btn">>})

Profile(products, cat) == [cid |-> 741, products |-> products, elements |-> cat]

\* expansion family: one product, every catalog, every list of references
ExpandProfiles ==
    {Profile(<<[name |-> NameA, pid |-> 10, elements |-> refs]>>, cat) :
        refs \in RefLists, cat \in Catalogs}

\* resolution family: every list of up to MaxProducts products, names repeated
\* or absent, over a few catalogs
SomeRefLists ==
    {<<>>, <<[name |-> "btn", value |-> 3]>>,
     <<[name |-> "led", value |-> 2], [name |-> "btn", value |-> 1]>>}
ProductLists ==
    UNION {{[i \in 1..k |-> [name |-> n[i], pid |-> 10 * i, elements |-> e[i]]] :
               n \in [1..k -> ProductNames], e \in [1..k -> SomeRefLists]} :
           k \in 0..MaxProducts}
SomeCatalogs ==
    {<<>>,
     <<Entry(1, "btn", PyInt(0), <<>>)>>,
     <<Entry(1, "btn", PyBool(FALSE), <<"led">>), Entry(2, "led", PyInt(9), <<>>)>>}
ResolveProfiles == {Profile(products, cat) : products \in ProductLists, cat \in SomeCatalogs}

\* termination family: the catalogs of three counts and those of one name
\* twice, with every list of references
LiveProfiles ==
    {Profile(<<[name |-> NameA, pid |-> 10, elements |-> refs]>>, cat) :
        refs \in RefLists,
        cat \in CatalogsOf(<<"btn", "led", "pwm">>, {PyInt(9)}, DepLists)
                  \cup CatalogsOf(<<"btn", "btn">>, {PyBool(FALSE)}, DepLists)}

-----------------------------------------------------------------------------
(* State of a run *)

Catalog == prod_profile.elements

NoFile == [exists |-> FALSE, text |-> <<>>]

\* the build driver is not running
DriverOff ==
    /\ installed = {}
    /\ argv = <<>>
    /\ args = <<>>
    /\ available_products = <<>>
    /\ build_dirs = {}
    /\ sdkconfig = FALSE
    /\ main_pc = "off"
    /\ idx = 1
    /\ log = <<>>
    /\ fs0 = <<>>

\* the script starts: the document is loaded, nothing is constructed or written
Start ==
    /\ pc = "CodeGen"
    /\ product = <<>>
    /\ pid = <<>>
    /\ deps = EmptyDict
    /\ max_el = 1
    /\ file_insert = <<>>
    /\ genfile_h = NoFile
    /\ yml = <<>>
    /\ el_i = 1
    /\ stack = <<>>
    /\ visits = <<>>
    /\ loaded = prod_profile

Init ==
    /\ \/ prod_profile \in ExpandProfiles /\ target = NameA
       \/ prod_profile \in ResolveProfiles /\ target \in ProductNames
    /\ Start
    /\ DriverOff

InitLive ==
    /\ prod_profile \in LiveProfiles
    /\ target \in {NameA, NameB}
    /\ Start
    /\ DriverOff

-----------------------------------------------------------------------------
(* CodeGen.__init__ and __find_prod_from_target *)

\* the product the loop leaves in self.product: every match overwrites it
RECURSIVE FindFrom(_, _, _, _)
FindFrom(list, name, i, found) ==
    IF i > Len(list) THEN found
    ELSE FindFrom(list, name, i + 1, IF list[i].name = name THEN <<list[i]>> ELSE found)

find_prod_from_target(list, name) == FindFrom(list, name, 1, <<>>)

\* CodeGen(sys.argv[1]) returns: the product is found, the macro file is touched
CodeGen_init ==
    /\ pc = "CodeGen"
    /\ LET p == find_prod_from_target(prod_profile.products, target) IN
        /\ p # <<>>
        /\ product' = p
        /\ pid' = <<p[1].pid>>
    /\ max_el' = 1
    /\ deps' = EmptyDict
    /\ file_insert' = <<>>
    /\ genfile_h' = [genfile_h EXCEPT !.exists = TRUE]
    /\ el_i' = 1
    /\ pc' = "resolve_el_deps"
    /\ UNCHANGED <<dvars, target, prod_profile, yml, stack, visits, loaded>>

\* the macro file touched before the product is looked up
CodeGen_raise_after_touch ==
    /\ pc = "CodeGen"
    /\ find_prod_from_target(prod_profile.products, target) = <<>>
    /\ genfile_h' = [genfile_h EXCEPT !.exists = TRUE]
    /\ pc' = "ProductNotFound"
    /\ UNCHANGED <<dvars, target, prod_profile, product, pid, deps, max_el, file_insert,
                   yml, el_i, stack, visits, loaded>>

\* CodeGen(sys.argv[1]) raises CodeGenException("Product Not Found"): the script ends
CodeGen_raise ==
    /\ pc = "CodeGen"
    /\ find_prod_from_target(prod_profile.products, target) = <<>>
    /\ pc' = "ProductNotFound"
    /\ UNCHANGED <<dvars, target, prod_profile, product, pid, deps, max_el, file_insert,
                   genfile_h, yml, el_i, stack, visits, loaded>>

-----------------------------------------------------------------------------
(* CodeGen.resolve_el_deps and __resolve_dep_create_yml_dict                *)
(*                                                                         *)
(* A frame of the stack is one call __resolve_dep_create_yml_dict(dep_s,   *)
(* value): idx is the catalog position its for loop is at, and sub the     *)
(* position in that entry's deps of the next recursive call (0 while the   *)
(* loop is still comparing names). direct tells a call made by             *)
(* resolve_el_deps from a recursive one.                                   *)

Frame(name, value, direct) ==
    [dep_s |-> name, value |-> value, idx |-> 1, sub |-> 0, direct |-> direct]

Top == stack[Len(stack)]
SetTop(f) == [stack EXCEPT ![Len(stack)] = f]

\* the name is not compared: every entry from i on is taken for a match
NextMatchAny(cat, name, i) == i

\* the first catalog position from i on whose name is name, Len + 1 if none
RECURSIVE NextMatch(_, _, _)
NextMatch(cat, name, i) ==
    IF i > Len(cat) \/ cat[i].name = name THEN i ELSE NextMatch(cat, name, i + 1)

\* a flag set from the truth of the value passed
macro_value_of_arg(old, value) ==
    IF IsBool(old) THEN PyBool(value # 0) ELSE PyInt(value)

\* the value a visit leaves in macro.value
macro_value(old, value) == IF IsBool(old) THEN PyBool(TRUE) ELSE PyInt(value)

\* the deps of an entry are not followed
AdvanceSkipDeps(f, cat) == [f EXCEPT !.idx = f.idx + 1, !.sub = 0]

\* where a frame goes on after its entry's deps[sub] has been handled
Advance(f, cat) ==
    IF f.sub < Len(cat[f.idx].deps)
    THEN [f EXCEPT !.sub = f.sub + 1]
    ELSE [f EXCEPT !.idx = f.idx + 1, !.sub = 0]

\* resolve_el_deps: the call for the next element of the product
resolve_el_deps_call ==
    /\ pc = "resolve_el_deps"
    /\ stack = <<>>
    /\ el_i <= Len(product[1].elements)
    /\ LET element == product[1].elements[el_i] IN
        stack' = <<Frame(element.name, element.value, TRUE)>>
    /\ el_i' = el_i + 1
    /\ UNCHANGED <<dvars, target, prod_profile, pc, product, pid, deps, max_el, file_insert,
                   genfile_h, yml, visits, loaded>>

\* the loop reaches an entry named dep_s: record the path, overwrite the value
resolve_dep_visit ==
    /\ pc = "resolve_el_deps"
    /\ stack # <<>>
    /\ Top.sub = 0
    /\ LET m == NextMatch(Catalog, Top.dep_s, Top.idx)
           at == [Top EXCEPT !.idx = m]
       IN
        /\ m <= Len(Catalog)
        /\ deps' = DictPut(deps, Top.dep_s, [path |-> Catalog[m].path])
        /\ prod_profile' = [prod_profile EXCEPT !.elements[m].macro.value =
                                macro_value(Catalog[m].macro.value, Top.value)]
        /\ stack' = SetTop(Advance(at, Catalog))
        /\ visits' = Append(visits, [idx |-> m, name |-> Top.dep_s,
                                     value |-> Top.value, direct |-> Top.direct])
    /\ UNCHANGED <<dvars, target, pc, product, pid, max_el, file_insert, genfile_h, yml, el_i, loaded>>

\* a visited-set: a sub_dep that is already in the dependency map is not called
resolve_dep_recurse_once ==
    /\ pc = "resolve_el_deps"
    /\ stack # <<>>
    /\ Top.sub > 0
    /\ Len(stack) < RecursionLimit
    /\ IF Catalog[Top.idx].deps[Top.sub] \in DOMAIN deps
       THEN stack' = SetTop(Advance(Top, Catalog))
       ELSE stack' = Append(SetTop(Advance(Top, Catalog)),
                            Frame(Catalog[Top.idx].deps[Top.sub], 0, FALSE))
    /\ UNCHANGED <<dvars, target, prod_profile, pc, product, pid, deps, max_el, file_insert,
                   genfile_h, yml, el_i, visits, loaded>>

\* a cycle guard: a sub_dep whose call is still on the stack is not called again
resolve_dep_recurse_guarded ==
    /\ pc = "resolve_el_deps"
    /\ stack # <<>>
    /\ Top.sub > 0
    /\ Len(stack) < RecursionLimit
    /\ IF \E k \in 1..Len(stack) : stack[k].dep_s = Catalog[Top.idx].deps[Top.sub]
       THEN stack' = SetTop(Advance(Top, Catalog))
       ELSE stack' = Append(SetTop(Advance(Top, Catalog)),
                            Frame(Catalog[Top.idx].deps[Top.sub], 0, FALSE))
    /\ UNCHANGED <<dvars, target, prod_profile, pc, product, pid, deps, max_el, file_insert,
                   genfile_h, yml, el_i, visits, loaded>>

\* the caller's value handed down to the sub_dep
resolve_dep_recurse_inherit ==
    /\ pc = "resolve_el_deps"
    /\ stack # <<>>
    /\ Top.sub > 0
    /\ Len(stack) < RecursionLimit
    /\ stack' = Append(SetTop(Advance(Top, Catalog)),
                       Frame(Catalog[Top.idx].deps[Top.sub], Top.value, FALSE))
    /\ UNCHANGED <<dvars, target, prod_profile, pc, product, pid, deps, max_el, file_insert,
                   genfile_h, yml, el_i, visits, loaded>>

\* the recursive call for the next sub_dep of the entry (value defaults to 0)
resolve_dep_recurse ==
    /\ pc = "resolve_el_deps"
    /\ stack # <<>>
    /\ Top.sub > 0
    /\ Len(stack) < RecursionLimit
    /\ stack' = Append(SetTop(Advance(Top, Catalog)),
                       Frame(Catalog[Top.idx].deps[Top.sub], 0, FALSE))
    /\ UNCHANGED <<dvars, target, prod_profile, pc, product, pid, deps, max_el, file_insert,
                   genfile_h, yml, el_i, visits, loaded>>

\* the recursive call exceeds the interpreter's recursion limit: the script ends
resolve_dep_overflow ==
    /\ pc = "resolve_el_deps"
    /\ stack # <<>>
    /\ Top.sub > 0
    /\ Len(stack) >= RecursionLimit
    /\ pc' = "RecursionError"
    /\ UNCHANGED <<dvars, target, prod_profile, product, pid, deps, max_el, file_insert,
                   genfile_h, yml, el_i, stack, visits, loaded>>

\* a strict lookup: a name that is in no entry is an error
resolve_dep_return_strict ==
    /\ pc = "resolve_el_deps"
    /\ stack # <<>>
    /\ Top.sub = 0
    /\ NextMatch(Catalog, Top.dep_s, Top.idx) > Len(Catalog)
    /\ IF NextMatch(Catalog, Top.dep_s, 1) > Len(Catalog)
       THEN pc' = "DependencyNotFound" /\ stack' = stack
       ELSE pc' = pc /\ stack' = SubSeq(stack, 1, Len(stack) - 1)
    /\ UNCHANGED <<dvars, target, prod_profile, product, pid, deps, max_el, file_insert,
                   genfile_h, yml, el_i, visits, loaded>>

\* the loop ends with no further entry named dep_s: the call returns
resolve_dep_return ==
    /\ pc = "resolve_el_deps"
    /\ stack # <<>>
    /\ Top.sub = 0
    /\ NextMatch(Catalog, Top.dep_s, Top.idx) > Len(Catalog)
    /\ stack' = SubSeq(stack, 1, Len(stack) - 1)
    /\ UNCHANGED <<dvars, target, prod_profile, pc, product, pid, deps, max_el, file_insert,
                   genfile_h, yml, el_i, visits, loaded>>

\* resolve_el_deps: every element is done, yaml.dump of the dependency map
resolve_el_deps_dump ==
    /\ pc = "resolve_el_deps"
    /\ stack = <<>>
    /\ el_i > Len(product[1].elements)
    /\ yml' = <<[dependencies |-> deps]>>
    /\ pc' = "get_common_defs"
    /\ UNCHANGED <<dvars, target, prod_profile, product, pid, deps, max_el, file_insert,
                   genfile_h, el_i, stack, visits, loaded>>

-----------------------------------------------------------------------------
(* CodeGen.get_common_defs, get_el_macro, close *)

RECURSIVE SumValues(_, _)
SumValues(elements, i) ==
    IF i > Len(elements) THEN 0 ELSE elements[i].value + SumValues(elements, i + 1)

\* the count taken over the catalog's macro values
max_el_of_catalog(p) ==
    LET f[k \in 0..Len(Catalog)] ==
            IF k = 0 THEN 0 ELSE f[k - 1] + IntOf(Catalog[k].macro.value)
    IN 1 + f[Len(Catalog)]

\* self.max_el after the loop over the product's elements
max_el_of(p) == 1 + SumValues(p.elements, 1)

get_common_defs ==
    /\ pc = "get_common_defs"
    /\ max_el' = max_el_of(product[1])
    /\ file_insert' = file_insert \o
          << Define("CONFIG_CID_ID", FmtInt(prod_profile.cid)),
             Define("CONFIG_PID_ID", FmtInt(pid[1])),
             Define("CONFIG_PRODUCT_NAME", FmtStr(Slice16(target))),
             Define("CONFIG_MAX_ELEMENT_COUNT", FmtInt(max_el')) >>
    /\ pc' = "get_el_macro"
    /\ UNCHANGED <<dvars, target, prod_profile, product, pid, deps, genfile_h, yml, el_i,
                   stack, visits, loaded>>

\* the define of one catalog entry
el_macro(element_reg) == Define(element_reg.macro.def, FmtInt(IntOf(element_reg.macro.value)))

\* only the entries that expansion recorded get a define
get_el_macro_visited_only ==
    /\ pc = "get_el_macro"
    /\ file_insert' = file_insert \o
          SelectSeq([i \in 1..Len(Catalog) |-> el_macro(Catalog[i])],
                    LAMBDA d : d.def[2] \in DOMAIN deps)
    /\ pc' = "close"
    /\ UNCHANGED <<dvars, target, prod_profile, product, pid, deps, max_el, genfile_h, yml,
                   el_i, stack, visits, loaded>>

\* one define per entry of the catalog, in its order
get_el_macro ==
    /\ pc = "get_el_macro"
    /\ file_insert' = file_insert \o [i \in 1..Len(Catalog) |-> el_macro(Catalog[i])]
    /\ pc' = "close"
    /\ UNCHANGED <<dvars, target, prod_profile, product, pid, deps, max_el, genfile_h, yml,
                   el_i, stack, visits, loaded>>

\* the closing line of the include guard
EndIf == Define("#endif", FmtStr(<<>>))

close ==
    /\ pc = "close"
    /\ file_insert' = Append(file_insert, EndIf)
    /\ genfile_h' = [exists |-> TRUE, text |-> <<file_insert'>>]
    /\ pc' = "done"
    /\ UNCHANGED <<dvars, target, prod_profile, product, pid, deps, max_el, yml, el_i,
                   stack, visits, loaded>>

-----------------------------------------------------------------------------

Next ==
    \/ CodeGen_init
    \/ CodeGen_raise
    \/ resolve_el_deps_call
    \/ resolve_dep_visit
    \/ resolve_dep_recurse
    \/ resolve_dep_overflow
    \/ resolve_dep_return
    \/ resolve_el_deps_dump
    \/ get_common_defs
    \/ get_el_macro
    \/ close

Spec == Init /\ [][Next]_allvars

\* the interpreter runs the script to its end: a step that can be taken is taken
FairSpec == InitLive /\ [][Next]_allvars /\ WF_allvars(Next)

-----------------------------------------------------------------------------
(* Build driver (tools/scripts/meshx.py)                                    *)
(*                                                                         *)
(* One run of the script: the required tools are looked up, the command    *)
(* line is parsed, the product names are validated against the profile,    *)
(* the target is constructed (its tools are looked up), and the requested  *)
(* stages run. A subprocess.run call is one step: it blocks until the      *)
(* child has ended, and its exit code is the child's choice. log records   *)
(* every child process, every file operation of the script and every      *)
(* stage that is entered. The option --meshx-args is not given, and the    *)
(* profile file can be read.                                               *)

Tools == {"cmake", "ninja", "git", "esptool.py", "esp_idf_monitor"}

required_tools == <<"cmake", "ninja", "git">>

\* the stages in the order of the script's if statements
Stages == <<"config", "clean", "build", "erase", "flash", "run">>

\* the command-line flag that requests a stage
FlagOf == [config |-> "-C", clean |-> "-c", build |-> "-b",
           erase |-> "-E", flash |-> "-F", run |-> "-R"]

\* exit codes of a child process: success and failure
ExitCodes == {0, 1}

\* the device files that exist
Devices == {"/dev/ttyUSB0"}

ProdA == "relay"
ProdB == "cwww"
ProdC == "none"

\* argparse: a store_true flag is set when its token occurs, wherever it occurs
parse_args(av) ==
    [config    |-> FlagOf.config \in Range(av.flags),
     clean     |-> FlagOf.clean \in Range(av.flags),
     build     |-> FlagOf.build \in Range(av.flags),
     erase     |-> FlagOf.erase \in Range(av.flags),
     flash     |-> FlagOf.flash \in Range(av.flags),
     run       |-> FlagOf.run \in Range(av.flags),
     list_bsp  |-> "--list-bsp" \in Range(av.flags),
     version   |-> "-v" \in Range(av.flags),
     prod_name |-> av.N,
     port      |-> av.P,
     host      |-> av.H]

NoArgv == [flags |-> <<>>, N |-> <<>>, P |-> <<>>, H |-> "esp"]

\* the stage flags of a set of stages, in the order of Stages from position i on
RECURSIVE InOrder(_, _)
InOrder(S, i) ==
    IF i > Len(Stages) THEN <<>>
    ELSE (IF Stages[i] \in S THEN <<FlagOf[Stages[i]]>> ELSE <<>>) \o InOrder(S, i + 1)

Reverse(s) == [i \in 1..Len(s) |-> s[Len(s) + 1 - i]]

\* command lines: every set of stages, its flags in the order of the stages
\* and in the opposite order
StageFlagLists ==
    {InOrder(S, 1) : S \in SUBSET Range(Stages)}
        \cup {Reverse(InOrder(S, 1)) : S \in SUBSET Range(Stages)}

\* command lines with an option that ends the run early
ExitFlagLists ==
    {<<"-v">>, <<"--list-bsp">>, <<"-b", "-v", "-F">>, <<"--list-bsp", "-c", "-b">>}

\* a few command lines
SomeFlagLists ==
    {<<>>, <<"-b">>, <<"-F", "-b", "-c">>, <<"-C", "-E", "-R">>} \cup ExitFlagLists

ProdNameArgs == {<<>>, <<ProdA>>, <<ProdA, ProdB>>, <<ProdC>>}

Ports == {<<>>, <<"/dev/ttyUSB0">>, <<"/dev/ttyUSB1">>}

\* the build tree before the run: [build_dirs, sdkconfig]
Trees ==
    {[build_dirs |-> {}, sdkconfig |-> FALSE],
     [build_dirs |-> {ProdA}, sdkconfig |-> TRUE],
     [build_dirs |-> {ProdA, ProdB}, sdkconfig |-> TRUE]}

\* the code generator is not running
CodeGenOff ==
    /\ target = NameA
    /\ prod_profile = Profile(<<>>, <<>>)
    /\ Start

DriverStart ==
    /\ main_pc = "required_tools"
    /\ args = parse_args(NoArgv)
    /\ idx = 1
    /\ log = <<>>
    /\ fs0 = [build_dirs |-> build_dirs, sdkconfig |-> sdkconfig]

DriverInit ==
    /\ CodeGenOff
    /\ \/ /\ installed = Tools
          /\ argv \in [flags : StageFlagLists \cup ExitFlagLists, N : ProdNameArgs,
                       P : Ports, H : {"esp"}]
          /\ available_products \in {<<ProdA>>, <<ProdA, ProdB>>}
          /\ \E t \in Trees : build_dirs = t.build_dirs /\ sdkconfig = t.sdkconfig
       \/ /\ installed \in {Tools \ {t} : t \in Tools} \cup {Tools, {}}
          /\ argv \in [flags : SomeFlagLists, N : ProdNameArgs,
                       P : {<<>>, <<"/dev/ttyUSB0">>}, H : {"esp", "nrf"}]
          /\ available_products = <<ProdA, ProdB>>
          /\ build_dirs = {ProdA} /\ sdkconfig = TRUE
    /\ DriverStart

\* events of the log
Called(stage) == [ev |-> "call", stage |-> stage, cmd |-> "", arg |-> "", rc |-> 0]
Spawn(stage, cmd, arg, rc) ==
    [ev |-> "spawn", stage |-> stage, cmd |-> cmd, arg |-> arg, rc |-> rc]
FileOp(stage, cmd, arg) ==
    [ev |-> "file", stage |-> stage, cmd |-> cmd, arg |-> arg, rc |-> 0]

\* build comes before clean
AfterBuildFirst(stage) ==
    IF stage = "config" THEN "build"
    ELSE IF stage = "build" THEN "clean"
    ELSE IF stage = "clean" THEN "erase"
    ELSE IF stage = "erase" THEN "flash"
    ELSE IF stage = "flash" THEN "run"
    ELSE "exit0"

\* the position after a stage
After(stage) ==
    IF stage = "config" THEN "clean"
    ELSE IF stage = "clean" THEN "build"
    ELSE IF stage = "build" THEN "erase"
    ELSE IF stage = "erase" THEN "flash"
    ELSE IF stage = "flash" THEN "run"
    ELSE "exit0"

\* for tool in required_tools: check_tool_installed(tool)
check_tool_installed ==
    /\ main_pc = "required_tools"
    /\ LET tool == required_tools[idx]
           rc   == IF tool \in installed THEN 0 ELSE 1
       IN  /\ log' = Append(log, Spawn("toolcheck", "which", tool, rc))
           /\ IF rc # 0
              THEN main_pc' = "EnvironmentError" /\ idx' = idx
              ELSE IF idx < Len(required_tools)
                   THEN main_pc' = main_pc /\ idx' = idx + 1
                   ELSE main_pc' = "parse_args" /\ idx' = 1
    /\ UNCHANGED <<vars, installed, argv, args, available_products, build_dirs,
                   sdkconfig, fs0>>

\* args = parser.parse_args()
parse ==
    /\ main_pc = "parse_args"
    /\ args' = parse_args(argv)
    /\ main_pc' = "list_bsp"
    /\ UNCHANGED <<vars, installed, argv, available_products, build_dirs,
                   sdkconfig, idx, log, fs0>>

\* --list-bsp and --version end the run with sys.exit(0)
list_bsp_version ==
    /\ main_pc = "list_bsp"
    /\ main_pc' = IF args.list_bsp \/ args.version THEN "exit0" ELSE "prod_name"
    /\ UNCHANGED <<vars, installed, argv, args, available_products, build_dirs,
                   sdkconfig, idx, log, fs0>>

\* the product names are checked against the profile, or taken from it
prod_name_check ==
    /\ main_pc = "prod_name"
    /\ IF args.prod_name # <<>>
       THEN /\ args' = args
            /\ main_pc' = IF \A i \in 1..Len(args.prod_name) :
                                args.prod_name[i] \in Range(available_products)
                          THEN "target_sel" ELSE "ValueError"
       ELSE /\ args' = [args EXCEPT !.prod_name = available_products]
            /\ main_pc' = "target_sel"
    /\ UNCHANGED <<vars, installed, argv, available_products, build_dirs,
                   sdkconfig, idx, log, fs0>>

\* the target is constructed after the stages: no tool of it is looked up
ESPTarget_init_unchecked ==
    /\ main_pc = "target_sel"
    /\ main_pc' = IF args.host # "esp" THEN "TargetFlashException" ELSE "config"
    /\ UNCHANGED <<vars, installed, argv, args, available_products, build_dirs,
                   sdkconfig, idx, log, fs0>>

\* target_sel = ESPTarget(...): Target.__init__ calls ESPTarget.toolcheck
ESPTarget_init ==
    /\ main_pc = "target_sel"
    /\ IF args.host # "esp"
       THEN main_pc' = "TargetFlashException" /\ log' = log
       ELSE LET rc == IF "esptool.py" \in installed THEN 0 ELSE 1
            IN  /\ log' = Append(log, Spawn("toolcheck", "which", "esptool.py", rc))
                /\ main_pc' = IF rc # 0 \/ "esp_idf_monitor" \notin installed
                              THEN "EnvironmentError" ELSE "config"
    /\ UNCHANGED <<vars, installed, argv, args, available_products, build_dirs,
                   sdkconfig, idx, fs0>>

\* if args.<stage>: is false
stage_skip ==
    /\ main_pc \in Range(Stages)
    /\ ~args[main_pc]
    /\ main_pc' = After(main_pc)
    /\ UNCHANGED <<vars, installed, argv, args, available_products, build_dirs,
                   sdkconfig, idx, log, fs0>>

\* a stage function raises: the stage was entered, no child process ran
Raise(stage, exception) ==
    /\ log' = Append(log, Called(stage))
    /\ main_pc' = exception

\* subprocess.run(cmd, check=True) as the one child process of a target stage:
\* CalledProcessError on a non-zero exit code
proc_run(stage, cmd) ==
    \E rc \in ExitCodes :
        /\ log' = log \o <<Called(stage), Spawn(stage, cmd, args.prod_name[1], rc)>>
        /\ main_pc' = IF rc = 0 THEN After(stage) ELSE "CalledProcessError"

\* if args.config: target_sel.configure(build_root)
ESPTarget_configure ==
    /\ main_pc = "config"
    /\ args.config
    /\ IF Len(args.prod_name) # 1
       THEN Raise("config", "InvalidProductNameException")
       ELSE proc_run("config", "ninja")
    /\ UNCHANGED <<vars, installed, argv, args, available_products, build_dirs,
                   sdkconfig, idx, fs0>>

\* if args.clean: clean(args, build_root)
clean_call ==
    /\ main_pc = "clean"
    /\ args.clean
    /\ log' = Append(log, Called("clean"))
    /\ idx' = 1
    /\ main_pc' = "clean_prod"
    /\ UNCHANGED <<vars, installed, argv, args, available_products, build_dirs,
                   sdkconfig, fs0>>

\* clean, one product: rm -rf of its build directory if there is one
clean_prod ==
    /\ main_pc = "clean_prod"
    /\ idx <= Len(args.prod_name)
    /\ LET prod == args.prod_name[idx]
       IN  IF prod \in build_dirs
           THEN \E rc \in ExitCodes :
                /\ log' = Append(log, Spawn("clean", "rm", prod, rc))
                /\ IF rc = 0
                   THEN /\ build_dirs' = build_dirs \ {prod}
                        /\ idx' = idx + 1
                        /\ main_pc' = main_pc
                   ELSE /\ build_dirs' = build_dirs
                        /\ idx' = idx
                        /\ main_pc' = "CalledProcessError"
           ELSE /\ idx' = idx + 1
                /\ UNCHANGED <<log, build_dirs, main_pc>>
    /\ UNCHANGED <<vars, installed, argv, args, available_products, sdkconfig, fs0>>

\* clean returns
clean_return ==
    /\ main_pc = "clean_prod"
    /\ idx > Len(args.prod_name)
    /\ idx' = 1
    /\ main_pc' = After("clean")
    /\ UNCHANGED <<vars, installed, argv, args, available_products, build_dirs,
                   sdkconfig, log, fs0>>

\* if args.build: build(args, build_root)
build_call ==
    /\ main_pc = "build"
    /\ args.build
    /\ log' = Append(log, Called("build"))
    /\ idx' = 1
    /\ main_pc' = "build_prod"
    /\ UNCHANGED <<vars, installed, argv, args, available_products, build_dirs,
                   sdkconfig, fs0>>

\* build, one product: an existing sdkconfig is removed and the build
\* directory is made
build_prod ==
    /\ main_pc = "build_prod"
    /\ idx <= Len(args.prod_name)
    /\ LET prod == args.prod_name[idx]
       IN  /\ log' = log
                \o (IF sdkconfig THEN <<FileOp("build", "os.remove", "sdkconfig")>> ELSE <<>>)
                \o <<FileOp("build", "os.makedirs", prod)>>
           /\ sdkconfig' = FALSE
           /\ build_dirs' = build_dirs \cup {prod}
    /\ main_pc' = "build_cmake"
    /\ UNCHANGED <<vars, installed, argv, args, available_products, idx, fs0>>

\* the exit code of cmake is not looked at (check=False)
build_cmake_unchecked ==
    /\ main_pc = "build_cmake"
    /\ \E rc \in ExitCodes :
        /\ log' = Append(log, Spawn("build", "cmake", args.prod_name[idx], rc))
        /\ sdkconfig' \in {sdkconfig, rc = 0}
        /\ main_pc' = "build_ninja"
    /\ UNCHANGED <<vars, installed, argv, args, available_products, build_dirs,
                   idx, fs0>>

\* build, one product: cmake configures the build directory; a cmake that
\* succeeds may have written sdkconfig
build_cmake ==
    /\ main_pc = "build_cmake"
    /\ \E rc \in ExitCodes :
        /\ log' = Append(log, Spawn("build", "cmake", args.prod_name[idx], rc))
        /\ IF rc = 0
           THEN sdkconfig' \in {sdkconfig, TRUE} /\ main_pc' = "build_ninja"
           ELSE sdkconfig' = sdkconfig /\ main_pc' = "CalledProcessError"
    /\ UNCHANGED <<vars, installed, argv, args, available_products, build_dirs,
                   idx, fs0>>

\* build, one product: ninja builds it
build_ninja ==
    /\ main_pc = "build_ninja"
    /\ \E rc \in ExitCodes :
        /\ log' = Append(log, Spawn("build", "ninja", args.prod_name[idx], rc))
        /\ IF rc = 0
           THEN idx' = idx + 1 /\ main_pc' = "build_prod"
           ELSE idx' = idx /\ main_pc' = "CalledProcessError"
    /\ UNCHANGED <<vars, installed, argv, args, available_products, build_dirs,
                   sdkconfig, fs0>>

\* build returns
build_return ==
    /\ main_pc = "build_prod"
    /\ idx > Len(args.prod_name)
    /\ idx' = 1
    /\ main_pc' = After("build")
    /\ UNCHANGED <<vars, installed, argv, args, available_products, build_dirs,
                   sdkconfig, log, fs0>>

\* if args.erase: target_sel.erase(args, build_root); a port of None is no
\* argument of a command line (TypeError in subprocess.run)
ESPTarget_erase ==
    /\ main_pc = "erase"
    /\ args.erase
    /\ IF Len(args.prod_name) # 1
       THEN Raise("erase", "InvalidProductNameException")
       ELSE IF args.port = <<>>
       THEN Raise("erase", "TypeError")
       ELSE proc_run("erase", "esptool.py")
    /\ UNCHANGED <<vars, installed, argv, args, available_products, build_dirs,
                   sdkconfig, idx, fs0>>

\* if args.flash: target_sel.flash(args, build_root)
ESPTarget_flash ==
    /\ main_pc = "flash"
    /\ args.flash
    /\ IF Len(args.prod_name) # 1
       THEN Raise("flash", "InvalidProductNameException")
       ELSE IF args.port = <<>> \/ args.port[1] \notin Devices
       THEN Raise("flash", "TargetFlashException")
       ELSE proc_run("flash", "esptool.py")
    /\ UNCHANGED <<vars, installed, argv, args, available_products, build_dirs,
                   sdkconfig, idx, fs0>>

\* if args.run: target_sel.run(args, build_root)
ESPTarget_run ==
    /\ main_pc = "run"
    /\ args.run
    /\ IF Len(args.prod_name) # 1
       THEN Raise("run", "InvalidProductNameException")
       ELSE IF args.port = <<>>
       THEN Raise("run", "TypeError")
       ELSE proc_run("run", "esp_idf_monitor")
    /\ UNCHANGED <<vars, installed, argv, args, available_products, build_dirs,
                   sdkconfig, idx, fs0>>

DriverNext ==
    \/ check_tool_installed
    \/ parse
    \/ list_bsp_version
    \/ prod_name_check
    \/ ESPTarget_init
    \/ stage_skip
    \/ ESPTarget_configure
    \/ clean_call
    \/ clean_prod
    \/ clean_return
    \/ build_call
    \/ build_prod
    \/ build_cmake
    \/ build_ninja
    \/ build_return
    \/ ESPTarget_erase
    \/ ESPTarget_flash
    \/ ESPTarget_run

DriverSpec == DriverInit /\ [][DriverNext]_allvars

-----------------------------------------------------------------------------
(* Product resolution *)

Products == loaded.products
Matches == {i \in 1..Len(Products) : Products[i].name = target}
FirstMatch == CHOOSE i \in Matches : \A j \in Matches : i <= j
LastMatch == CHOOSE i \in Matches : \A j \in Matches : j <= i
Constructed == pc \notin {"CodeGen", "ProductNotFound"}

\* C1: resolution selects the first product named as the target, and its pid,
\* also when several products carry that name.
C1_FirstProductSelected ==
    Constructed =>
        /\ product = <<Products[FirstMatch]>>
        /\ pid = <<Products[FirstMatch].pid>>

\* what the loop does: the last product named as the target is the one kept
C1_LastProductSelected ==
    Constructed =>
        /\ Matches # {}
        /\ product = <<Products[LastMatch]>>
        /\ pid = <<Products[LastMatch].pid>>

C1_SeveralMatches == Constructed /\ Cardinality(Matches) > 1

\* C2: when no product is named as the target the run ends with the
\* product-not-found error before any output: the macro file is neither
\* created nor written, the manifest is not written, no macro value changes.
C2_NotFoundAbortsBeforeOutput ==
    Matches = {} =>
        /\ pc \in {"CodeGen", "ProductNotFound"}
        /\ genfile_h = NoFile
        /\ yml = <<>>
        /\ prod_profile = loaded
        /\ product = <<>> /\ deps = EmptyDict /\ file_insert = <<>>

C2_Aborted == pc = "ProductNotFound" /\ Products # <<>> /\ Catalog # <<>>

-----------------------------------------------------------------------------
(* Expansion *)

Selected == Products[LastMatch]
RefsOf == Selected.elements
CatalogNames == {loaded.elements[i].name : i \in 1..Len(loaded.elements)}
LoadedValue(i) == loaded.elements[i].macro.value
Value(i) == Catalog[i].macro.value
Expanded == pc \in {"get_common_defs", "get_el_macro", "close", "done"}

\* C3: a visit overwrites the macro value of the entry: a boolean-typed value
\* becomes true whatever value was passed, any other becomes the integer
\* passed; the catalog changes in no other step, and a boolean-typed macro
\* that has been visited is true ever after.
C3_VisitOverwritesValue ==
    /\ [][/\ Len(visits') > Len(visits) =>
              LET v == visits'[Len(visits')] IN
                /\ Len(visits') = Len(visits) + 1
                /\ IF Value(v.idx).type = "bool"
                   THEN Catalog'[v.idx].macro.value = PyBool(TRUE)
                   ELSE Catalog'[v.idx].macro.value = PyInt(v.value)
          /\ Catalog' # Catalog => Len(visits') > Len(visits)]_vars
    /\ [](\A k \in 1..Len(visits) :
            LoadedValue(visits[k].idx).type = "bool" =>
                Value(visits[k].idx) = PyBool(TRUE))

C3_FlagVisitedWithZero ==
    \E k \in 1..Len(visits) :
        /\ LoadedValue(visits[k].idx) = PyBool(FALSE)
        /\ visits[k].value = 0
        /\ Value(visits[k].idx) = PyBool(TRUE)
        /\ \E j \in 1..Len(visits) :
              LoadedValue(visits[j].idx) = PyInt(9) /\ Value(visits[j].idx) = PyInt(2)

\* names and entries reached from a set of names along deps of catalog entries
EntriesOf(n) == {i \in 1..Len(loaded.elements) : loaded.elements[i].name = n}
DepsOfName(n) == UNION {Range(loaded.elements[i].deps) : i \in EntriesOf(n)}
RECURSIVE Closure(_)
Closure(S) ==
    LET T == S \cup UNION {DepsOfName(n) : n \in S} IN
    IF T = S THEN S ELSE Closure(T)
RefNames == {RefsOf[i].name : i \in 1..Len(RefsOf)}
Reachable == Closure(RefNames) \cap CatalogNames
LastEntry(n) == CHOOSE i \in EntriesOf(n) : \A j \in EntriesOf(n) : j <= i

BtnCatalog == <<Entry(1, "btn", PyInt(0), <<>>)>>
BtnProfile ==
    /\ RefsOf = <<[name |-> "btn", value |-> 3]>>
    /\ loaded.elements = BtnCatalog

\* C4: after expansion the keys of the dependency map are the catalog names
\* reachable from the product's references along deps, each mapped to the
\* path of its entry, and that map is the manifest; product [{btn, 3}] over
\* the one-entry catalog btn gives {btn: {path: p/btn}} and CONFIG_BTN 3.
C4_DependencyMap ==
    /\ Expanded =>
        /\ DOMAIN deps = Reachable
        /\ \A n \in Reachable : deps[n] = [path |-> loaded.elements[LastEntry(n)].path]
        /\ yml = <<[dependencies |-> deps]>>
    /\ (Expanded /\ BtnProfile) =>
        deps = [n \in {"btn"} |-> [path |-> <<"p", "btn", 1>>]]
    /\ (pc = "done" /\ BtnProfile) =>
        /\ file_insert[5] = Define(<<"CONFIG", "btn", 1>>, FmtInt(3))
        /\ genfile_h = [exists |-> TRUE, text |-> <<file_insert>>]

C4_BtnExpanded ==
    /\ pc = "done" /\ BtnProfile
    /\ DOMAIN deps = {"btn"}

C4_TransitiveExpanded ==
    /\ pc = "done"
    /\ Cardinality(Reachable) = 3 /\ Cardinality(RefNames) = 1

\* C5: a visit of a name that is in no catalog entry does nothing but return:
\* no error, no entry of the dependency map, no macro value changed, and
\* expansion goes on with the caller's next reference or dependency.
MissingTop == pc = "resolve_el_deps" /\ stack # <<>> /\ Top.dep_s \notin CatalogNames
C5_MissingNameSkipped ==
    /\ [][MissingTop =>
            /\ stack' = SubSeq(stack, 1, Len(stack) - 1)
            /\ pc' = pc /\ deps' = deps /\ prod_profile' = prod_profile
            /\ visits' = visits /\ yml' = yml /\ genfile_h' = genfile_h
            /\ el_i' = el_i]_vars
    /\ [](MissingTop => ENABLED resolve_dep_return)
    /\ [](DOMAIN deps \subseteq CatalogNames)
    /\ []((Matches # {} /\ RefNames \cap CatalogNames = {}) =>
            (deps = EmptyDict /\ prod_profile = loaded /\ pc # "RecursionError"))

C5_SkippedThenVisited ==
    /\ pc = "done"
    /\ Len(RefsOf) = 2
    /\ RefsOf[1].name \notin CatalogNames
    /\ RefsOf[2].name \in CatalogNames
    /\ \E i \in 1..Len(loaded.elements) :
          /\ \E d \in Range(loaded.elements[i].deps) : d \notin CatalogNames
          /\ \E k \in 1..Len(visits) : visits[k].idx = i

\* the visits of a completed expansion, in the order claimed: the references
\* in declared order, each entry of the name followed depth-first by its deps
RECURSIVE VisitsOfName(_, _, _, _), VisitsOfDeps(_, _)
VisitsOfDeps(dl, k) ==
    IF k > Len(dl) THEN <<>>
    ELSE VisitsOfName(dl[k], 0, FALSE, 1) \o VisitsOfDeps(dl, k + 1)
VisitsOfName(n, v, d, i) ==
    IF i > Len(loaded.elements) THEN <<>>
    ELSE (IF loaded.elements[i].name = n
          THEN <<[idx |-> i, name |-> n, value |-> v, direct |-> d]>>
                   \o VisitsOfDeps(loaded.elements[i].deps, 1)
          ELSE <<>>) \o VisitsOfName(n, v, d, i + 1)
RECURSIVE VisitsOfRefs(_, _)
VisitsOfRefs(refs, k) ==
    IF k > Len(refs) THEN <<>>
    ELSE VisitsOfName(refs[k].name, refs[k].value, TRUE, 1) \o VisitsOfRefs(refs, k + 1)

\* the number of paths from the references to a name
Occurrences(seq, x) == Cardinality({k \in 1..Len(seq) : seq[k] = x})
RECURSIVE Paths(_)
Paths(n) ==
    LET parents == {i \in 1..Len(loaded.elements) :
                        /\ loaded.elements[i].name \in Reachable
                        /\ n \in Range(loaded.elements[i].deps)}
        sum[S \in SUBSET parents] ==
            IF S = {} THEN 0
            ELSE LET i == CHOOSE j \in S : TRUE IN
                 Occurrences(loaded.elements[i].deps, n) * Paths(loaded.elements[i].name)
                     + sum[S \ {i}]
    IN Occurrences([k \in 1..Len(RefsOf) |-> RefsOf[k].name], n) + sum[parents]

VisitsTo(i) == {k \in 1..Len(visits) : visits[k].idx = i}
LastVisit(i) == CHOOSE k \in VisitsTo(i) : \A j \in VisitsTo(i) : j <= k

\* a name that is reached from the references and, along deps, from itself
CycleReachable == \E n \in Reachable : n \in Closure(DepsOfName(n))

\* C6: expansion visits the references in declared order, each followed
\* depth-first by its deps in declared order; an element is visited once per
\* path to it, and an integer-typed macro ends with the value of its last visit.
C6_VisitOrderLastWriteWins ==
    (Expanded /\ ~CycleReachable) =>
        /\ visits = VisitsOfRefs(RefsOf, 1)
        /\ \A i \in 1..Len(Catalog) :
            /\ Cardinality(VisitsTo(i)) =
                  (IF Catalog[i].name \in Reachable THEN Paths(Catalog[i].name) ELSE 0)
            /\ (VisitsTo(i) # {} /\ LoadedValue(i).type = "int") =>
                   Value(i) = PyInt(VisitsOfRefs(RefsOf, 1)[LastVisit(i)].value)

C6_DiamondRevisited ==
    /\ pc = "done"
    /\ \E i \in 1..Len(Catalog) : \E j, k \in VisitsTo(i) :
          /\ j < k /\ k = LastVisit(i)
          /\ visits[j].direct /\ ~visits[k].direct
          /\ visits[j].value # 0
          /\ Value(i) = PyInt(0)

\* the names reached from one reference, and the last reference reaching a name
ReachedFrom(k) == Closure({RefsOf[k].name})
ReachingRefs(n) == {k \in 1..Len(RefsOf) : n \in ReachedFrom(k)}
LastReaching(n) == CHOOSE k \in ReachingRefs(n) : \A j \in ReachingRefs(n) : j <= k
ReachedAsDep(n) == \E m \in Reachable : n \in DepsOfName(m)
IntEntriesReachedAsDep ==
    {i \in 1..Len(Catalog) : LoadedValue(i).type = "int" /\ ReachedAsDep(Catalog[i].name)}

\* C7: after expansion an integer-typed element reached as a dependency has
\* macro value 0, unless the product references it directly, and then it has
\* the value of the product's direct reference.
C7_SubDepZeroUnlessDirect ==
    Expanded =>
        \A i \in IntEntriesReachedAsDep :
            IF Catalog[i].name \in RefNames
            THEN \E k \in 1..Len(RefsOf) :
                    RefsOf[k].name = Catalog[i].name /\ Value(i) = PyInt(RefsOf[k].value)
            ELSE Value(i) = PyInt(0)

\* C7 as amended: the value is 0 unless the last reference of the product whose
\* expansion reaches the element is a direct reference to it, and then it is
\* that reference's value.
C7_SubDepZeroUnlessLastDirect ==
    Expanded =>
        /\ \A k \in 1..Len(visits) : ~visits[k].direct => visits[k].value = 0
        /\ \A i \in IntEntriesReachedAsDep :
              LET r == RefsOf[LastReaching(Catalog[i].name)] IN
              Value(i) = IF r.name = Catalog[i].name THEN PyInt(r.value) ELSE PyInt(0)

C7_DirectThenAsDep ==
    /\ pc = "done"
    /\ \E i \in IntEntriesReachedAsDep :
          /\ RefsOf[1] = [name |-> Catalog[i].name, value |-> 2]
          /\ LastReaching(Catalog[i].name) = 2
          /\ Value(i) = PyInt(0)

-----------------------------------------------------------------------------
(* Emission *)

DirectSum ==
    LET f[k \in 0..Len(RefsOf)] == IF k = 0 THEN 0 ELSE f[k - 1] + RefsOf[k].value
    IN f[Len(RefsOf)]
CommonEmitted == pc \in {"get_el_macro", "close", "done"}

\* C8: CONFIG_MAX_ELEMENT_COUNT is 1 plus the sum of the values of the
\* product's direct references: before, during and after expansion that is
\* what get_common_defs computes, and it is what is emitted and written.
C8_MaxElementCount ==
    /\ Constructed => max_el_of(product[1]) = 1 + DirectSum
    /\ CommonEmitted =>
        /\ max_el = 1 + DirectSum
        /\ file_insert[4] = Define("CONFIG_MAX_ELEMENT_COUNT", FmtInt(1 + DirectSum))
    /\ pc = "done" =>
        genfile_h.text[1][4] = Define("CONFIG_MAX_ELEMENT_COUNT", FmtInt(1 + DirectSum))

C8_TransitiveNotCounted ==
    /\ pc = "done"
    /\ Cardinality(Reachable) > Len(RefsOf)
    /\ DirectSum = 2
    /\ \E i \in 1..Len(Catalog) : Value(i) # LoadedValue(i)

IntegerForm(v) ==
    CASE v = PyBool(TRUE) -> 1
      [] v = PyBool(FALSE) -> 0
      [] OTHER -> v.n
First16(s) == [k \in 1..(IF Len(s) < 16 THEN Len(s) ELSE 16) |-> s[k]]

\* C9: the macro sequence is CONFIG_CID_ID, CONFIG_PID_ID, CONFIG_PRODUCT_NAME,
\* CONFIG_MAX_ELEMENT_COUNT, then one define per catalog entry, visited or
\* not, in catalog order, with the integer form of its macro value after
\* expansion: 0 or 1 for a boolean-typed macro.
C9_MacroSequence ==
    pc \in {"close", "done"} =>
        /\ Len(file_insert) = 4 + Len(Catalog) + (IF pc = "done" THEN 1 ELSE 0)
        /\ file_insert[1] = Define("CONFIG_CID_ID", FmtInt(loaded.cid))
        /\ file_insert[2] = Define("CONFIG_PID_ID", FmtInt(Selected.pid))
        /\ file_insert[3] = Define("CONFIG_PRODUCT_NAME", FmtStr(First16(target)))
        /\ file_insert[4].def = "CONFIG_MAX_ELEMENT_COUNT"
        /\ \A i \in 1..Len(Catalog) :
            /\ file_insert[4 + i] =
                  Define(loaded.elements[i].macro.def, FmtInt(IntegerForm(Value(i))))
            /\ LoadedValue(i).type = "bool" => file_insert[4 + i].val.n \in {0, 1}
        /\ pc = "done" => genfile_h = [exists |-> TRUE, text |-> <<file_insert>>]

C9_UnvisitedEmitted ==
    /\ pc = "done"
    /\ \E i, j, k \in 1..Len(Catalog) :
          /\ VisitsTo(i) = {} /\ file_insert[4 + i].val = FmtInt(9)
          /\ LoadedValue(j) = PyBool(FALSE) /\ file_insert[4 + j].val = FmtInt(1)
          /\ VisitsTo(k) = {} /\ LoadedValue(k) = PyBool(FALSE)
          /\ file_insert[4 + k].val = FmtInt(0)

-----------------------------------------------------------------------------
(* Termination *)

Found == Matches # {}

\* C10: expansion ends, and the run with it, for every profile in which no
\* cycle of deps is reachable from the product's references; when one is
\* reachable the recursion has no guard and never returns: it runs into the
\* recursion limit, and neither the manifest nor the macro file is written.
C10_TerminatesUnlessCycle ==
    /\ (Found /\ ~CycleReachable) ~> (pc = "done")
    /\ (Found /\ CycleReachable) ~> (pc = "RecursionError")
    /\ []((Found /\ CycleReachable) =>
            /\ pc \in {"CodeGen", "resolve_el_deps", "RecursionError"}
            /\ yml = <<>>
            /\ genfile_h.text = <<>>)
    /\ []((Found /\ ~CycleReachable) => (pc # "RecursionError" /\ Len(stack) <= Cardinality(ElemNames)))

C10_SelfDependency ==
    /\ pc = "RecursionError"
    /\ \E i \in 1..Len(Catalog) :
          /\ Catalog[i].name \in Range(Catalog[i].deps)
          /\ Cardinality(VisitsTo(i)) > 1
    /\ genfile_h = [exists |-> TRUE, text |-> <<>>]

-----------------------------------------------------------------------------
(* Frame of expansion *)

\* C13: expansion changes nothing of the loaded document but the macro value
\* of the entries it visits: an entry that is not reachable from the product's
\* references keeps the value it was loaded with, and the name, path, macro
\* name and deps of every entry, the cid and the products stay as loaded.
C13_OnlyVisitedValuesChange ==
    /\ prod_profile.cid = loaded.cid
    /\ prod_profile.products = loaded.products
    /\ Len(Catalog) = Len(loaded.elements)
    /\ \A i \in 1..Len(Catalog) :
        /\ Catalog[i].name = loaded.elements[i].name
        /\ Catalog[i].path = loaded.elements[i].path
        /\ Catalog[i].macro.def = loaded.elements[i].macro.def
        /\ Catalog[i].deps = loaded.elements[i].deps
        /\ VisitsTo(i) = {} => Value(i) = LoadedValue(i)
        /\ (Found /\ Catalog[i].name \notin Reachable) => Value(i) = LoadedValue(i)
    /\ ~Found => prod_profile = loaded

C13_UnreachableKept ==
    /\ pc = "done"
    /\ \E i, j \in 1..Len(Catalog) :
          /\ Catalog[i].name \notin Reachable
          /\ LoadedValue(i) = PyInt(9) /\ Value(i) = PyInt(9)
          /\ Catalog[i].deps # <<>>
          /\ Catalog[j].name \in Reachable
          /\ Value(j) # LoadedValue(j)

-----------------------------------------------------------------------------
(* Build driver: tool checks *)

Exceptions == {"EnvironmentError", "ValueError", "TargetFlashException",
               "InvalidProductNameException", "CalledProcessError", "TypeError"}

MissingTool == Tools \ installed # {}

\* the child processes of the stages and the file operations of the script
Effects == SelectSeq(log, LAMBDA e : e.ev # "call" /\ e.stage # "toolcheck")

TreeUntouched == build_dirs = fs0.build_dirs /\ sdkconfig = fs0.sdkconfig

\* C11 as stated: with a tool missing the run never ends well, and it ends
\* before any file operation and before any child process of a stage.
C11_MissingToolFailsFirst ==
    MissingTool =>
        /\ Effects = <<>>
        /\ TreeUntouched
        /\ main_pc # "exit0"

\* C11: with a tool missing no file operation is made and no child process of
\* a stage is started, no stage is reached, and the run fails unless
\* --list-bsp or --version ends it (exit 0) before the target's tools are
\* looked up; with cmake, ninja or git missing it fails before the command
\* line is parsed.
C11_MissingToolNoWork ==
    MissingTool =>
        /\ Effects = <<>>
        /\ TreeUntouched
        /\ main_pc \notin Range(Stages) \cup {"clean_prod", "build_prod", "build_cmake",
                                             "build_ninja"}
        /\ main_pc = "exit0" =>
              /\ args.list_bsp \/ args.version
              /\ Range(required_tools) \subseteq installed
        /\ ~(Range(required_tools) \subseteq installed) =>
              main_pc \in {"required_tools", "EnvironmentError"}

\* the target's tool is missing: the run fails when the target is constructed,
\* with stages requested and a build tree that clean would remove
C11_EspToolMissing ==
    /\ main_pc = "EnvironmentError"
    /\ Range(required_tools) \subseteq installed
    /\ "esptool.py" \notin installed
    /\ args.build /\ args.clean /\ args.flash
    /\ build_dirs # {}
    /\ sdkconfig

-----------------------------------------------------------------------------
(* Build driver: child processes *)

SpawnsOf(l) == SelectSeq(l, LAMBDA e : e.ev = "spawn")

\* a child process of the log l has ended with a non-zero exit code
FailedIn(l) == \E i \in 1..Len(l) : l[i].rc # 0

\* no command of the log l was run twice
NoRetryIn(l) ==
    \A i, j \in 1..Len(l) :
        (i < j /\ l[i].ev = "spawn" /\ l[j].ev = "spawn")
            => <<l[i].stage, l[i].cmd, l[i].arg>> # <<l[j].stage, l[j].cmd, l[j].arg>>

\* C12: a step starts at most one child process and waits for it; a child
\* process that ends with a non-zero exit code is the last thing the run does
\* (no later child process, file operation or stage: in build neither the
\* product's ninja nor a later product's cmake and ninja, and no erase, flash
\* or run); no command is run twice, and the run has then failed.
C12_FailureStopsRun ==
    [][ /\ Len(SpawnsOf(log')) <= Len(SpawnsOf(log)) + 1
        /\ \A i \in 1..Len(log') :
              log'[i].rc # 0 => (i = Len(log') /\ main_pc' \in Exceptions)
        /\ FailedIn(log) => log' = log
        /\ NoRetryIn(log')
        /\ main_pc' = "exit0" => ~FailedIn(log') ]_dvars

\* ninja fails on the first of two products: the second is never configured
\* and the requested flash is never entered
C12_NinjaFailed ==
    /\ main_pc = "CalledProcessError"
    /\ args.prod_name = <<ProdA, ProdB>>
    /\ args.flash
    /\ Len(log) > 2
    /\ log[Len(log)] = Spawn("build", "ninja", ProdA, 1)
    /\ log[Len(log) - 1] = Spawn("build", "cmake", ProdA, 0)

-----------------------------------------------------------------------------
(* Build driver: order of the stages *)

\* position of a stage in the fixed order; the tool checks come before all
PosOf(stage) ==
    IF stage = "toolcheck" THEN 0 ELSE CHOOSE i \in 1..Len(Stages) : Stages[i] = stage

\* the stages entered so far, in the order they were entered
Calls == SelectSeq(log, LAMBDA e : e.ev = "call")

CalledStages == {Calls[i].stage : i \in 1..Len(Calls)}

\* the stages the command line asks for
Requested == {st \in Range(Stages) : FlagOf[st] \in Range(argv.flags)}

AtStage ==
    main_pc \in Range(Stages) \cup {"clean_prod", "build_prod", "build_cmake", "build_ninja"}

\* cmake and ninja have both succeeded for the product
Built(prod) ==
    /\ Spawn("build", "cmake", prod, 0) \in Range(log)
    /\ Spawn("build", "ninja", prod, 0) \in Range(log)

\* C14: every stage is entered at most once, the stages and everything they
\* do come in the order config, clean, build, erase, flash, run wherever the
\* flags stand on the command line, and a run that ends well past the early
\* exits has entered exactly the requested stages; before the first stage the
\* product names are validated and the target's tools are looked up; the
\* product count is checked inside configure, erase, flash and run, so a run
\* that fails on it has entered every requested earlier stage, and if build
\* was requested every product is built by then.
C14_StagesInFixedOrder ==
    /\ \A i, j \in 1..Len(Calls) :
          i < j => PosOf(Calls[i].stage) < PosOf(Calls[j].stage)
    /\ \A i, j \in 1..Len(log) :
          i < j => PosOf(log[i].stage) <= PosOf(log[j].stage)
    /\ \A i \in 1..Len(log) :
          log[i].stage # "toolcheck" =>
              \E k \in 1..i : log[k] = Called(log[i].stage)
    /\ CalledStages \subseteq Requested
    /\ (main_pc = "exit0" /\ ~args.list_bsp /\ ~args.version) => CalledStages = Requested
    /\ (AtStage \/ Calls # <<>>) =>
          /\ Range(args.prod_name) \subseteq Range(available_products)
          /\ Tools \subseteq installed
          /\ Spawn("toolcheck", "which", "esptool.py", 0) \in Range(log)
    /\ main_pc = "InvalidProductNameException" =>
          /\ Len(args.prod_name) # 1
          /\ log # <<>>
          /\ log[Len(log)].ev = "call"
          /\ log[Len(log)].stage \in {"config", "erase", "flash", "run"}
          /\ \A st \in Requested :
                PosOf(st) <= PosOf(log[Len(log)].stage) => st \in CalledStages
          /\ ("build" \in Requested /\ PosOf("build") < PosOf(log[Len(log)].stage)) =>
                \A i \in 1..Len(args.prod_name) : Built(args.prod_name[i])

\* the flags are given as flash, build, clean and two products are named: both
\* are cleaned and built, and only then flash fails on the product count
C14_BuiltBeforeFlashFails ==
    /\ main_pc = "InvalidProductNameException"
    /\ argv.flags = <<"-F", "-b", "-c">>
    /\ args.prod_name = <<ProdA, ProdB>>
    /\ Built(ProdA) /\ Built(ProdB)
    /\ Spawn("clean", "rm", ProdA, 0) \in Range(log)
    /\ log[Len(log)] = Called("flash")

====
